---- MODULE Spec2Model ----
(***************************************************************************)
(* State-machine model of the readyplayerme-avatar component (model         *)
(* inflation, idle timer, eye tracking) of Elettrotecnica/aframe.           *)
(*                                                                          *)
(* The repository holds three revisions of the component:                   *)
(*   variant 1  src/unnamed/part_000                                        *)
(*   variant 2  src/src/components/readyplayerme-avatar.js, lines 32-216    *)
(*   variant 3  src/src/components/readyplayerme-avatar.js, lines 251-504   *)
(* The model carries the revision as the variable `variant`, chosen in      *)
(* Init, and every operation follows the code of that revision.             *)
(***************************************************************************)
EXTENDS Integers, Sequences, FiniteSets, TLC

(***************************************************************************)
(* Bounds of the model.                                                     *)
(***************************************************************************)
MaxUpdates == 2      \* update() calls in one behaviour
MaxTicks == 2        \* tick() calls in one behaviour
MaxEvents == 1       \* absolute position / rotation events in one behaviour

(***************************************************************************)
(* THREE math on the grid of right angles.  Angles are whole degrees;       *)
(* matrices are 3x3 integer matrices <<row1, row2, row3>>.                  *)
(***************************************************************************)
Wrap(m) == IF m > 180 THEN m - 360 ELSE m

\* An angle brought into (-180, 180].
Norm(a) == Wrap(a % 360)

Cos(a) == CASE Norm(a) = 0 -> 1
            [] Norm(a) = 90 -> 0
            [] Norm(a) = 180 -> -1
            [] Norm(a) = -90 -> 0

Sin(a) == CASE Norm(a) = 0 -> 0
            [] Norm(a) = 90 -> 1
            [] Norm(a) = 180 -> 0
            [] Norm(a) = -90 -> -1

Asin(v) == CASE v = 0 -> 0
             [] v = 1 -> 90
             [] v = -1 -> -90

Atan2(y, x) == CASE y = 0 /\ x >= 0 -> 0
                 [] y = 0 /\ x < 0 -> 180
                 [] y > 0 -> 90
                 [] y < 0 -> -90

MatMul(A, B) ==
  [i \in 1..3 |-> [j \in 1..3 |->
      A[i][1] * B[1][j] + A[i][2] * B[2][j] + A[i][3] * B[3][j]]]

RotX(a) == << <<1, 0, 0>>, <<0, Cos(a), -Sin(a)>>, <<0, Sin(a), Cos(a)>> >>
RotY(a) == << <<Cos(a), 0, Sin(a)>>, <<0, 1, 0>>, <<-Sin(a), 0, Cos(a)>> >>
RotZ(a) == << <<Cos(a), -Sin(a), 0>>, <<Sin(a), Cos(a), 0>>, <<0, 0, 1>> >>

\* Matrix4.makeRotationFromEuler: the orientation an Euler triple stands for.
MatOfEuler(e) ==
  IF e.order = "YXZ"
  THEN MatMul(MatMul(RotY(e.y), RotX(e.x)), RotZ(e.z))
  ELSE MatMul(MatMul(RotX(e.x), RotY(e.y)), RotZ(e.z))

\* Euler.setFromRotationMatrix(m, order), orders 'YXZ' and 'XYZ'.
EulerFromMat(m, order) ==
  IF order = "YXZ"
  THEN IF m[2][3] \in {1, -1}
       THEN [x |-> Asin(-m[2][3]), y |-> Atan2(-m[3][1], m[1][1]), z |-> 0,
             order |-> order]
       ELSE [x |-> Asin(-m[2][3]), y |-> Atan2(m[1][3], m[3][3]),
             z |-> Atan2(m[2][1], m[2][2]), order |-> order]
  ELSE IF m[1][3] \in {1, -1}
       THEN [x |-> Atan2(m[3][2], m[2][2]), y |-> Asin(m[1][3]), z |-> 0,
             order |-> order]
       ELSE [x |-> Atan2(-m[2][3], m[3][3]), y |-> Asin(m[1][3]),
             z |-> Atan2(-m[1][2], m[1][1]), order |-> order]

Euler(x, y, z, order) == [x |-> x, y |-> y, z |-> z, order |-> order]

ZeroVec == <<0, 0, 0>>
UnitVec == <<1, 1, 1>>

(***************************************************************************)
(* Inputs: the model hierarchies the loader can deliver and the templates   *)
(* the page can carry under the avatar element.  Entity ids, node ids and   *)
(* identity tokens are positive integers; 0 stands for null / undefined.    *)
(***************************************************************************)
N(name, type, parent, position, rotation, scale) ==
  [name |-> name, type |-> type, parent |-> parent, position |-> position,
   rotation |-> rotation, scale |-> scale]

\* A loaded glTF: its nodes (parent = index of the parent, 0 for the root,
\* parents before children) and whether animations[4] exists.
Trees == <<
  [idle |-> TRUE, nodes |-> <<
     N("Scene", "Group", 0, ZeroVec, Euler(0, 0, 0, "XYZ"), UnitVec),
     N("Hips", "Bone", 1, <<0, 1, 0>>, Euler(90, 0, 90, "XYZ"), UnitVec),
     N("LeftEye", "Bone", 2, <<-1, 2, 0>>, Euler(0, 90, 0, "XYZ"), UnitVec),
     N("RightEye", "Bone", 2, <<1, 2, 0>>, Euler(0, 90, 0, "YXZ"), <<2, 2, 2>>) >>],
  [idle |-> FALSE, nodes |-> <<
     N("Scene", "Group", 0, <<0, 0, 1>>, Euler(0, 180, 0, "XYZ"), UnitVec),
     N("LeftHand", "Bone", 1, <<-1, 0, 0>>, Euler(90, 90, 0, "XYZ"), UnitVec),
     N("Wolf3D_Hands", "SkinnedMesh", 1, ZeroVec, Euler(0, 0, 0, "XYZ"), UnitVec),
     N("RightHand", "Bone", 1, <<1, 0, 0>>, Euler(-90, 0, 180, "XYZ"), <<1, 2, 1>>) >>],
  [idle |-> FALSE, nodes |-> <<
     N("Armature.001", "Object3D", 0, <<0, 3, 0>>, Euler(90, 0, 0, "XYZ"), <<3, 3, 3>>),
     N("Hips", "Bone", 1, <<0, 1, 0>>, Euler(0, 0, 0, "XYZ"), UnitVec),
     N("RightEye", "Bone", 2, <<1, 2, 0>>, Euler(0, -90, 90, "XYZ"), UnitVec) >>],
  [idle |-> TRUE, nodes |-> <<
     N("Scene", "Group", 0, <<0, 2, 0>>, Euler(0, 0, 0, "XYZ"), UnitVec) >>],
  [idle |-> FALSE, nodes |-> <<
     N("Scene", "Group", 0, ZeroVec, Euler(0, 0, 0, "XYZ"), UnitVec),
     N("", "Object3D", 1, <<0, 0, 2>>, Euler(0, 0, 90, "XYZ"), UnitVec),
     N("Scene", "Bone", 2, <<2, 0, 0>>, Euler(180, 0, 0, "XYZ"), UnitVec),
     N("Wolf3D_Shirt", "SkinnedMesh", 2, ZeroVec, Euler(0, 0, 0, "XYZ"), UnitVec) >>],
  [idle |-> FALSE, nodes |-> <<
     N("Scene", "Group", 0, ZeroVec, Euler(0, 0, 0, "XYZ"), UnitVec),
     N("!?", "Bone", 1, <<0, 1, 0>>, Euler(0, 0, 0, "YXZ"), UnitVec),
     N("RightEye", "Bone", 2, <<1, 2, 0>>, Euler(0, 90, 0, "YXZ"), UnitVec) >>]
>>

NumTrees == Len(Trees)

\* What the page holds for `template[data-name=...]` under the avatar element:
\*   "none"   no template element,
\*   "empty"  a template element whose content has no element,
\*   "plain"  a template whose content element has no children,
\*   "nested" a template whose content element has one child element.
TemplateSets == <<
  [n \in {} |-> "none"],
  [n \in {"RightEye"} |-> "plain"],
  [n \in {"LeftHand", "RightHand", "Wolf3D_Hands"} |->
     IF n = "RightHand" THEN "nested" ELSE "plain"],
  [n \in {"LeftEye"} |-> "empty"],
  [n \in {"Scene", "LeftEye", "RightEye", "LeftHand", "RightHand"} |->
     IF n = "Scene" THEN "nested" ELSE "plain"],
  [n \in {"Scene", "Hips"} |-> IF n = "Scene" THEN "plain" ELSE "empty"]
>>

Variants == {1, 2, 3}

VARIABLES
  variant,      \* which revision of the component runs
  templates,    \* template elements under the avatar element, by data-name
  data,         \* the component's data (schema properties)
  updates,      \* number of update() calls so far
  listeners,    \* 'model-loaded' listeners registered on the avatar element
  gltfComp,     \* id of the current gltf-model component, 0 when the attribute is unset
  compModel,    \* root node of the current gltf-model component's model, 0 when null
  pending,      \* loads in flight: sequence of [comp, src]
  runs,         \* number of _inflate runs started so far
  nodes,        \* all nodes of all loaded hierarchies
  ents,         \* all entities created by _inflate
  nextUuid,     \* the identity-token generator
  avatarKids,   \* children of the avatar element's object3D
  avatarMesh,   \* the avatar element's object3DMap.mesh, 0 when unset
  elChildren,   \* entities appended to the avatar element
  comp,         \* the component's own fields (idle timer, eyes, lookAt, ...)
  handlers,     \* absolutePositionChanged / absoluteRotationChanged handlers registered
  ticks,        \* number of tick() calls so far
  events,       \* number of absolute position / rotation events so far
  log,          \* one record per _inflate call, in order of return
  quiet,        \* history: ms of ticks since the last update() or absolute event
  stream,       \* mediastream-listener: this.stream is set, per element
  isMakingNoise, \* mediastream-listener: this.isMakingNoise, per element
  loudItems,    \* mediastream-listener: this.loudItems, keys in insertion order
  where,        \* object3D.position of the elements that listen
  heard,        \* what the last call of listen() returned, and to whom
  lastEvent,    \* history: the last loud / silent event of each element
  chain,        \* absolute listeners: object3D position and rotation of this.el
                \* and of its parentElements below the scene, this.el first
  lastPosition, \* absolute-position-listener: this.lastPosition
  lastRotation, \* absolute-rotation-listener: this.lastRotation
  absTicks,     \* number of ticks of the absolute listeners so far
  moves,        \* number of times an element of the chain was moved or turned
  emittedAt,    \* history: the chain at the last emission of each event
  absLog,       \* history: what the last tick of an absolute listener did
  handData,     \* remote-hand-controls: this.data (gesture, hand)
  handGesture,  \* remote-hand-controls: this.gesture, the current pose
  handLoads,    \* remote-hand-controls: loads of hand models in flight
  handMesh,     \* remote-hand-controls: object3DMap.mesh of the element and its mixer
  handUpdates,  \* remote-hand-controls: number of update() calls so far
  handLog,      \* history: the gesture last set by an update() that changed it
  snd,          \* mediastream-sound: this.sound, this.stream, the sound's node
                \* source, the sources connected to the output, the events emitted
  playListeners, \* mediastream-sound: 'play' listeners added to the src element
  captures,     \* number of streams captured from the src element so far
  sndCalls,     \* number of calls of the operations of mediastream-sound so far
  sndLog        \* history: the last call of setMediaStream, before and after

vars == <<variant, templates, data, updates, listeners, gltfComp, compModel,
          pending, runs, nodes, ents, nextUuid, avatarKids, avatarMesh,
          elChildren, comp, handlers, ticks, events, log, quiet,
          stream, isMakingNoise, loudItems, where, heard, lastEvent,
          chain, lastPosition, lastRotation, absTicks, moves, emittedAt, absLog,
          handData, handGesture, handLoads, handMesh, handUpdates, handLog,
          snd, playListeners, captures, sndCalls, sndLog>>

avatarVars == <<variant, templates, data, updates, listeners, gltfComp, compModel,
                pending, runs, nodes, ents, nextUuid, avatarKids, avatarMesh,
                elChildren, comp, handlers, ticks, events, log, quiet>>

listenerVars == <<stream, isMakingNoise, loudItems, where, heard, lastEvent>>

absoluteVars == <<chain, lastPosition, lastRotation, absTicks, moves, emittedAt, absLog>>

handVars == <<handData, handGesture, handLoads, handMesh, handUpdates, handLog>>

\* The components beside the avatar, the listeners and the absolute listeners.
restVars == <<handVars>>

soundVars == <<snd, playListeners, captures, sndCalls, sndLog>>

(***************************************************************************)
(* Sequences and the object graph.                                          *)
(***************************************************************************)
Without(seq, x) == SelectSeq(seq, LAMBDA y : y # x)

Range(seq) == {seq[i] : i \in DOMAIN seq}

NoParent == [k |-> "none", id |-> 0]
NodeParent(n) == [k |-> "node", id |-> n]
EntParent(e) == [k |-> "ent", id |-> e]
AvatarParent == [k |-> "avatar", id |-> 0]

\* Object3D.remove(child) on the child's present parent, as Object3D.add does
\* before it re-parents an object.  st carries nodes, ents and avatarKids.
DetachFrom(st, n, p) ==
  CASE p.k = "node" ->
         [st EXCEPT !.nodes[p.id].children = Without(@, n),
                    !.nodes[n].parent = NoParent]
    [] p.k = "ent" ->
         [st EXCEPT !.ents[p.id].obj.children = Without(@, n),
                    !.nodes[n].parent = NoParent]
    [] p.k = "avatar" ->
         [st EXCEPT !.avatarKids = Without(@, n),
                    !.nodes[n].parent = NoParent]
    [] p.k = "none" -> st

Detach(st, n) == DetachFrom(st, n, st.nodes[n].parent)

\* String.prototype.toLowerCase on the type tags of THREE objects.
ToLowerCase(type) ==
  CASE type = "Group" -> "group"
    [] type = "Bone" -> "bone"
    [] type = "Object3D" -> "object3d"
    [] type = "SkinnedMesh" -> "skinnedmesh"

\* el.setObject3D(type, obj) on a freshly created entity e: no object of that
\* type is there yet, so the object is bound, added to the entity's
\* object3D (leaving its old parent) and recorded in object3DMap.
Attach(st, e, slot, n) ==
  [st EXCEPT !.nodes[n].parent = EntParent(e),
             !.ents[e].obj.children = Append(@, n),
             !.ents[e].map = @ \cup {<<slot, n>>}]

SetObject3D(st, e, slot, n) == Attach(Detach(st, n), e, slot, n)

(***************************************************************************)
(* _inflate, step by step.                                                  *)
(***************************************************************************)
TemplateOf(name) ==
  IF name \in DOMAIN templates THEN templates[name] ELSE "none"

\* this.el.querySelector('template[data-name=...]'): is there a template element?
NodeTemplate(name) == TemplateOf(name) # "none"

\* Mutant: the content of a template is never found.
FirstElementChild_Never(name) == FALSE

\* nodeTemplate.content.firstElementChild
FirstElementChild(name) == TemplateOf(name) \in {"plain", "nested"}

\* Mutant: every SkinnedMesh follows the 'head' flag.
Visibility_HeadOnly(node) ==
  IF node.type = "SkinnedMesh" THEN data.head ELSE node.visible

\* The visibility switch on SkinnedMesh nodes.
Visibility(node) ==
  IF node.type = "SkinnedMesh"
  THEN CASE node.name = "Wolf3D_Hands" -> data.hands
         [] node.name = "Wolf3D_Shirt" -> data.shirt
         [] OTHER -> data.head
  ELSE node.visible

\* The eye references kept by the latest revision.
EyeRefs(st, n) ==
  IF variant = 3 /\ st.nodes[n].type # "SkinnedMesh"
  THEN CASE st.nodes[n].name = "RightEye" -> [st EXCEPT !.rightEye = n]
         [] st.nodes[n].name = "LeftEye" -> [st EXCEPT !.leftEye = n]
         [] OTHER -> st
  ELSE st

\* node.children.slice(0)
SnapshotChildren(node) == node.children

\* Mutant: the children's entities are left out of the decision.
WontBecomeEntity_IgnoresChildren(name, childrenEntities) ==
  name # "Scene" /\ ~NodeTemplate(name)

\* "This node won't become an entity"
WontBecomeEntity(name, childrenEntities) ==
  name # "Scene" /\ ~NodeTemplate(name) /\ Len(childrenEntities) = 0

\* Whether the shell is a clone of the template's content; the first revision
\* asks only for the template element, the later ones also for its content.
UsesClone(name) ==
  IF variant = 1 THEN NodeTemplate(name)
  ELSE NodeTemplate(name) /\ FirstElementChild(name)

\* null.cloneNode in the first revision: a template element without content.
CloneThrows(name) == UsesClone(name) /\ ~FirstElementChild(name)

\* A new a-entity element with its own object3D (a THREE.Group, which draws
\* an identity token of its own).
NewEntity(kind, tmpl, uuid) ==
  [kind |-> kind, tmpl |-> tmpl,
   attrs |-> [name |-> "", position |-> "", rotation |-> ""],
   children |-> <<>>, classes |-> <<>>, map |-> {},
   obj |-> [position |-> ZeroVec, rotation |-> Euler(0, 0, 0, "YXZ"),
            scale |-> UnitVec, name |-> "", uuid |-> uuid,
            matrixNeedsUpdate |-> FALSE, children |-> <<>>]]

\* cloneNode(true) of the template's content element, or createElement('a-entity').
\* The entity gets id Len(ents) + 1; a nested template brings its child along.
ResolveShell(st, name) ==
  IF UsesClone(name)
  THEN IF TemplateOf(name) = "nested"
       THEN [st EXCEPT
               !.ents = st.ents \o
                  << [NewEntity("clone", name, st.nextUuid)
                        EXCEPT !.children = <<Len(st.ents) + 2>>],
                     NewEntity("templatechild", name, st.nextUuid + 1) >>,
               !.nextUuid = st.nextUuid + 2]
       ELSE [st EXCEPT
               !.ents = Append(st.ents, NewEntity("clone", name, st.nextUuid)),
               !.nextUuid = st.nextUuid + 1]
  ELSE [st EXCEPT
          !.ents = Append(st.ents, NewEntity("default", "", st.nextUuid)),
          !.nextUuid = st.nextUuid + 1]

\* el.setAttribute('name', node.name), second revision only.
NameAttribute(el, name) ==
  IF variant = 2 THEN [el EXCEPT !.attrs.name = name] ELSE el

\* The compensation on the scene element.
RootCompensation(el, name) ==
  IF name = "Scene"
  THEN [el EXCEPT !.attrs.position = "0 -0.65 0", !.attrs.rotation = "0 180 0"]
  ELSE el

\* Mutant: each child entity is put in front of the others.
AppendChildren_InFront(el, childrenEntities) ==
  [el EXCEPT !.children =
     [i \in 1..Len(childrenEntities) |->
        childrenEntities[Len(childrenEntities) + 1 - i]] \o @]

\* for (const childEntity of childrenEntities) el.appendChild(childEntity)
AppendChildren(el, childrenEntities) ==
  [el EXCEPT !.children = @ \o childrenEntities]

\* String.prototype.replace(/[^\w-]/g, '') on the names the loader delivers.
StripInvalid(name) ==
  CASE name = "Armature.001" -> "Armature001"
    [] name = "!?" -> ""
    [] OTHER -> name

\* el.classList.add(''): DOMTokenList.add throws a SyntaxError for an empty token.
ClassThrows(node) == node.name # "" /\ StripInvalid(node.name) = ""

\* (node.name || node.uuid).replace(/[^\w-]/g, ''); a token has no invalid character.
ClassName(node) ==
  IF node.name # "" THEN [of |-> "name", text |-> StripInvalid(node.name), token |-> 0]
  ELSE [of |-> "uuid", text |-> "", token |-> node.uuid]

\* if (node.rotation.order !== 'YXZ') node.rotation.setFromQuaternion(node.quaternion, 'YXZ')
NormalizeRotation(rotation) ==
  IF rotation.order # "YXZ"
  THEN EulerFromMat(MatOfEuler(rotation), "YXZ")
  ELSE rotation

\* Copy of the node's transform to the entity's object3D.
CopyTransform(obj, node) ==
  [obj EXCEPT !.position = node.position,
              !.rotation = node.rotation,
              !.matrixNeedsUpdate = TRUE]

\* node.matrix.identity(); node.matrix.decompose(position, rotation, scale):
\* the rotation keeps its order, its angles are the identity's.
ResetTransform(node) ==
  [node EXCEPT !.matrixAutoUpdate = FALSE,
               !.matrix = "identity",
               !.position = ZeroVec,
               !.rotation = EulerFromMat(RotX(0), node.rotation.order),
               !.scale = UnitVec]

\* THREE.MathUtils.generateUUID(): a token not handed out before.
GenerateUUID(st) == st.nextUuid

\* Mutant: the node keeps its token.
SwapIdentity_KeepsNodeToken(st, e, n) ==
  [st EXCEPT !.ents[e].obj.name = st.nodes[n].name,
             !.ents[e].obj.uuid = st.nodes[n].uuid]

\* el.object3D.name / uuid from the node, and a new token for the node.
SwapIdentity(st, e, n) ==
  [st EXCEPT !.ents[e].obj.name = st.nodes[n].name,
             !.ents[e].obj.uuid = st.nodes[n].uuid,
             !.nodes[n].uuid = GenerateUUID(st),
             !.nextUuid = st.nextUuid + 1]

\* The shell with its name attribute, the root compensation and the children.
Furnish(st, e, n, acc) ==
  [st EXCEPT !.ents[e] =
     AppendChildren(RootCompensation(NameAttribute(@, st.nodes[n].name),
                                     st.nodes[n].name), acc)]

\* The shell dressed: name attribute, root compensation, children, class.
DressShell(st, e, n, acc) ==
  [Furnish(st, e, n, acc) EXCEPT !.ents[e].classes = Append(@, ClassName(st.nodes[n]))]

NormalizeNode(st, n) == [st EXCEPT !.nodes[n].rotation = NormalizeRotation(@)]

TransferTransform(st, e, n) ==
  [st EXCEPT !.ents[e].obj = CopyTransform(@, st.nodes[n]),
             !.nodes[n] = ResetTransform(@)]

\* Mutant: the node is never given to the entity.
AttachPayload_Forgotten(st, e, n) == st

AttachPayload(st, e, n) == SetObject3D(st, e, ToLowerCase(st.nodes[n].type), n)

\* Everything from the shell to the return of the entity e, for a node that
\* becomes one.  acc are the children's entities.
BuildEntity(st, e, n, acc) ==
  [SwapIdentity(
     AttachPayload(
       TransferTransform(
         NormalizeNode(
           DressShell(ResolveShell(st, st.nodes[n].name), e, n, acc), n), e, n), e, n),
     e, n) EXCEPT !.ret = e]

\* What a call can change besides the nodes: the component's eye references,
\* the elements created and the tokens handed out.
ComponentState(st) ==
  [leftEye |-> st.leftEye, rightEye |-> st.rightEye,
   created |-> Len(st.ents), nextUuid |-> st.nextUuid]

\* One record of the log: the node as the call found it and left it, the
\* snapshot of its children, their entities, and the result (0: none,
\* -1: the call threw) with the entity as it was returned, the component's
\* state before and after and the flags of this.data during the call.
LogEntry(st, n, pre, was, kids, acc, ret) ==
  [run |-> st.run, node |-> n, pre |-> pre, post |-> st.nodes[n],
   was |-> was, now |-> ComponentState(st),
   flags |-> [hands |-> data.hands, shirt |-> data.shirt, head |-> data.head],
   kids |-> kids, acc |-> acc, ret |-> ret,
   el |-> IF ret > 0 THEN st.ents[ret] ELSE NewEntity("none", "", 0)]

Logged(st, n, pre, was, kids, acc, ret) ==
  [st EXCEPT !.log = Append(@, LogEntry(st, n, pre, was, kids, acc, ret))]

\* The part of _inflate after the loop over the children; r is the loop's result.
Decide(n, pre, was, kids, r) ==
  IF r.st.threw
  THEN Logged([r.st EXCEPT !.ret = 0], n, pre, was, kids, r.acc, -1)
  ELSE IF WontBecomeEntity(pre.name, r.acc)
  THEN Logged([r.st EXCEPT !.ret = 0], n, pre, was, kids, r.acc, 0)
  ELSE IF CloneThrows(pre.name)
  THEN Logged([r.st EXCEPT !.ret = 0, !.threw = TRUE], n, pre, was, kids, r.acc, -1)
  ELSE IF ClassThrows(pre)
  THEN Logged([Furnish(ResolveShell(r.st, pre.name), Len(r.st.ents) + 1, n, r.acc)
                 EXCEPT !.ret = 0, !.threw = TRUE], n, pre, was, kids, r.acc, -1)
  ELSE Logged(BuildEntity(r.st, Len(r.st.ents) + 1, n, r.acc),
              n, pre, was, kids, r.acc, Len(r.st.ents) + 1)

\* Mutant: the rotation order is converted before the node is known to stay.
Enter_ConvertsFirst(st, n) ==
  NormalizeNode(
    EyeRefs([st EXCEPT !.nodes[n].visible = Visibility(st.nodes[n]),
                       !.visited = Append(@, n)], n), n)

\* The part of _inflate before the loop: visibility, eye references.
Enter(st, n) ==
  EyeRefs([st EXCEPT !.nodes[n].visible = Visibility(st.nodes[n]),
                     !.visited = Append(@, n)], n)

RECURSIVE Inflate(_, _)
RECURSIVE InflateChildren(_, _)

Collect(r, rest) ==
  [st |-> rest.st, acc |-> (IF r.ret # 0 THEN <<r.ret>> ELSE <<>>) \o rest.acc]

\* After one child: an exception in it ends the loop.
AfterChild(kids, r) ==
  IF r.threw THEN [st |-> r, acc |-> <<>>]
  ELSE Collect(r, InflateChildren(Tail(kids), r))

\* The loop over the snapshot: the state after it and the entities collected.
InflateChildren(kids, st) ==
  IF kids = <<>> THEN [st |-> st, acc |-> <<>>]
  ELSE AfterChild(kids, Inflate(Head(kids), st))

InflateFrom(n, pre, was, kids, st) ==
  Decide(n, pre, was, kids, InflateChildren(kids, st))

Inflate(n, st) ==
  InflateFrom(n, st.nodes[n], ComponentState(st), SnapshotChildren(st.nodes[n]),
              Enter(st, n))

(***************************************************************************)
(* The mediastream-listener component.  Every element of Els carries one;   *)
(* the 'loud' and 'silent' events go to the scene, where the handlers of    *)
(* every component hear them, so all components hold the same loudItems.    *)
(***************************************************************************)
NumEls == 3
Els == 1..NumEls

\* Positions of the elements and readings of the analyser.
Positions == {<<0, 0, 0>>, <<1, 0, 0>>, <<0, 2, 0>>}
Loudnesses == {0, 127, 128, 255}

\* The property key an element gives, String(el).
KeyOf(el) == "[object HTMLElement]"

HasKey(items, key) == \E i \in DOMAIN items : items[i].key = key

\* items[key] = detail: a new key goes last, a known key keeps its place.
Put(items, key, detail) ==
  IF HasKey(items, key)
  THEN [i \in DOMAIN items |->
          IF items[i].key = key THEN [key |-> key, detail |-> detail] ELSE items[i]]
  ELSE Append(items, [key |-> key, detail |-> detail])

\* The 'mediastream-listener-loud' handler.
OnLoud(items, detail) == Put(items, KeyOf(detail.el), detail)

\* The 'mediastream-listener-silent' handler: `.delete` reads a property
\* of the detail and removes nothing.
OnSilent(items, detail) == items

\* The construction of the components: init().
InitListener(W) ==
  /\ stream = [el \in Els |-> FALSE]
  /\ isMakingNoise = [el \in Els |-> FALSE]
  /\ loudItems = <<>>
  /\ where \in W
  /\ heard = [by |-> 0, item |-> 0]
  /\ lastEvent = [el \in Els |-> "none"]

\* setMediaStream(stream)
SetMediaStream(el) ==
  /\ ~stream[el]
  /\ stream' = [stream EXCEPT ![el] = TRUE]
  /\ UNCHANGED <<isMakingNoise, loudItems, where, heard, lastEvent>>
  /\ UNCHANGED <<avatarVars, absoluteVars, restVars, soundVars>>

\* tick() of the component of el, whose analyser reads loudness.
ListenerTick(el, loudness) ==
  /\ stream[el]
  /\ IF loudness > 127 /\ ~isMakingNoise[el]
     THEN /\ loudItems' = OnLoud(loudItems, [el |-> el, loudness |-> loudness])
          /\ lastEvent' = [lastEvent EXCEPT ![el] = "loud"]
          /\ isMakingNoise' = [isMakingNoise EXCEPT ![el] = TRUE]
     ELSE IF loudness <= 127 /\ isMakingNoise[el]
     THEN /\ loudItems' = OnSilent(loudItems, [el |-> el])
          /\ lastEvent' = [lastEvent EXCEPT ![el] = "silent"]
          /\ isMakingNoise' = [isMakingNoise EXCEPT ![el] = FALSE]
     ELSE UNCHANGED <<loudItems, lastEvent, isMakingNoise>>
  /\ UNCHANGED <<stream, where, heard>>
  /\ UNCHANGED <<avatarVars, absoluteVars, restVars, soundVars>>

\* myPosition.distanceTo(soundPosition) ** 2
DistanceSquared(a, b) ==
  (a[1] - b[1]) * (a[1] - b[1]) + (a[2] - b[2]) * (a[2] - b[2])
    + (a[3] - b[3]) * (a[3] - b[3])

\* Mutant: >= for >.
Louder_OrAsLoud(l1, d1, l2, d2) == l1 * d2 >= l2 * d1

\* l1 / d1 > l2 / d2 for loudness l and squared distance d, as the division
\* of numbers gives it: l / 0 is Infinity for l > 0 and NaN for l = 0.
Louder(l1, d1, l2, d2) == l1 * d2 > l2 * d1

RECURSIVE ListenLoop(_, _, _, _, _)
\* The loop of listen() from the i-th key on, with maxNoise = maxL / maxD.
ListenLoop(i, me, maxL, maxD, maxItem) ==
  IF i > Len(loudItems) THEN maxItem
  ELSE IF loudItems[i].detail.el = me
  THEN ListenLoop(i + 1, me, maxL, maxD, maxItem)
  ELSE IF /\ Louder(loudItems[i].detail.loudness,
                    DistanceSquared(where[me], where[loudItems[i].detail.el]), 0, 1)
          /\ Louder(loudItems[i].detail.loudness,
                    DistanceSquared(where[me], where[loudItems[i].detail.el]),
                    maxL, maxD)
  THEN ListenLoop(i + 1, me, loudItems[i].detail.loudness,
                  DistanceSquared(where[me], where[loudItems[i].detail.el]),
                  loudItems[i].detail.el)
  ELSE ListenLoop(i + 1, me, maxL, maxD, maxItem)

\* listen() of the component of me: the element heard, 0 for null.
Listen(me) == ListenLoop(1, me, 0, 1, 0)

\* A call of listen().
CallListen(me) ==
  /\ heard' = [by |-> me, item |-> Listen(me)]
  /\ UNCHANGED <<stream, isMakingNoise, loudItems, where, lastEvent>>
  /\ UNCHANGED <<avatarVars, absoluteVars, restVars, soundVars>>

(***************************************************************************)
(* absolute-position-listener and absolute-rotation-listener.               *)
(***************************************************************************)
MaxDepth == 2
MaxAbsTicks == 3
MaxMoves == 3

\* Local positions, and local rotations in quarter turns (pi / 2 radians).
Vectors == {<<0, 0, 0>>, <<1, 0, 0>>, <<-1, 0, 0>>, <<0, 2, 0>>}
Turns == {<<0, 0, 0>>, <<0, 1, 0>>, <<0, -1, 0>>}

\* THREE.MathUtils.radToDeg, of an angle in quarter turns.
RadToDeg(q) == q * 90

\* AFRAME.utils.coordinates.stringify: the three numbers joined by a space.
Stringify(v) == ToString(v[1]) \o " " \o ToString(v[2]) \o " " \o ToString(v[3])

RECURSIVE WalkUp(_, _, _, _)
\* The while loop of _getAbsolutePosition / _getAbsoluteRotation from the
\* i-th element of the chain on: the walk ends at the scene.
WalkUp(ch, field, i, newValue) ==
  IF i > Len(ch) THEN newValue
  ELSE WalkUp(ch, field, i + 1,
              <<newValue[1] + ch[i][field][1], newValue[2] + ch[i][field][2],
                newValue[3] + ch[i][field][3]>>)

\* Mutant: the position of the element itself.
GetAbsolutePosition_OwnOnly(ch) == ch[1].position

GetAbsolutePosition(ch) == WalkUp(ch, "position", 1, <<0, 0, 0>>)

ToDegrees(v) == <<RadToDeg(v[1]), RadToDeg(v[2]), RadToDeg(v[3])>>

GetAbsoluteRotation(ch) == ToDegrees(WalkUp(ch, "rotation", 1, <<0, 0, 0>>))

\* A field that is undefined until the first emission.
NotYet == [set |-> FALSE, s |-> ""]

\* lastPosition !== stringCoords
Differs(last, stringCoords) == ~last.set \/ last.s # stringCoords

InitAbsolute(Depths) ==
  /\ chain \in {[i \in 1..d |-> [position |-> <<0, 0, 0>>, rotation |-> <<0, 0, 0>>]] :
                 d \in Depths}
  /\ lastPosition = NotYet
  /\ lastRotation = NotYet
  /\ absTicks = 0
  /\ moves = 0
  /\ emittedAt = [position |-> <<>>, rotation |-> <<>>]
  /\ absLog = [kind |-> "none", emitted |-> FALSE, detail |-> <<0, 0, 0>>,
               chain |-> <<>>, before |-> <<>>]

\* The position of an element of the chain is set.
Move(i, p) ==
  /\ moves < MaxMoves
  /\ chain[i].position # p
  /\ chain' = [chain EXCEPT ![i].position = p]
  /\ moves' = moves + 1
  /\ UNCHANGED <<lastPosition, lastRotation, absTicks, emittedAt, absLog>>
  /\ UNCHANGED <<avatarVars, listenerVars, restVars, soundVars>>

\* The rotation of an element of the chain is set.
Turn(i, r) ==
  /\ moves < MaxMoves
  /\ chain[i].rotation # r
  /\ chain' = [chain EXCEPT ![i].rotation = r]
  /\ moves' = moves + 1
  /\ UNCHANGED <<lastPosition, lastRotation, absTicks, emittedAt, absLog>>
  /\ UNCHANGED <<avatarVars, listenerVars, restVars, soundVars>>

\* tick() of absolute-position-listener, which computed newValue.
PositionTicked(newValue) ==
  /\ absTicks < MaxAbsTicks
  /\ absTicks' = absTicks + 1
  /\ absLog' = [kind |-> "position",
                emitted |-> Differs(lastPosition, Stringify(newValue)),
                detail |-> newValue, chain |-> chain, before |-> emittedAt.position]
  /\ IF Differs(lastPosition, Stringify(newValue))
     THEN /\ lastPosition' = [set |-> TRUE, s |-> Stringify(newValue)]
          /\ emittedAt' = [emittedAt EXCEPT !.position = chain]
     ELSE UNCHANGED <<lastPosition, emittedAt>>
  /\ UNCHANGED <<chain, moves, lastRotation>>
  /\ UNCHANGED <<avatarVars, listenerVars, restVars, soundVars>>

PositionTick == PositionTicked(GetAbsolutePosition(chain))

\* tick() of absolute-rotation-listener, which computed newValue.
RotationTicked(newValue) ==
  /\ absTicks < MaxAbsTicks
  /\ absTicks' = absTicks + 1
  /\ absLog' = [kind |-> "rotation",
                emitted |-> Differs(lastRotation, Stringify(newValue)),
                detail |-> newValue, chain |-> chain, before |-> emittedAt.rotation]
  /\ IF Differs(lastRotation, Stringify(newValue))
     THEN /\ lastRotation' = [set |-> TRUE, s |-> Stringify(newValue)]
          /\ emittedAt' = [emittedAt EXCEPT !.rotation = chain]
     ELSE UNCHANGED <<lastRotation, emittedAt>>
  /\ UNCHANGED <<chain, moves, lastPosition>>
  /\ UNCHANGED <<avatarVars, listenerVars, restVars, soundVars>>

RotationTick == RotationTicked(GetAbsoluteRotation(chain))

(***************************************************************************)
(* remote-hand-controls.                                                    *)
(***************************************************************************)
MaxHandUpdates == 3

\* Some of the poses of ANIMATIONS, and the hands.
Gestures == {"Open", "Point", "Fist"}
Hands == {"left", "right"}

\* No mesh set on the element.
NoMesh == [loaded |-> FALSE, hand |-> "", playing |-> "", from |-> ""]

\* init(), with the data the component is created with.
InitHand(G, H) ==
  /\ handData \in [gesture : G, hand : H]
  /\ handGesture = handData.gesture
  /\ handLoads = <<>>
  /\ handMesh = NoMesh
  /\ handUpdates = 0
  /\ handLog = [set |-> "", hadMesh |-> FALSE, shown |-> "", from |-> ""]

\* playAnimation(gesture, lastGesture): the mesh afterwards.
PlayAnimation(mesh, gesture, lastGesture) ==
  IF ~mesh.loaded THEN mesh
  ELSE [mesh EXCEPT !.playing = gesture, !.from = lastGesture]

\* animateGesture(gesture): does it play and take over the gesture?
Animates(gesture) == gesture # "" /\ gesture # handGesture

\* update(oldData) with the new data d; the first call, right after init(),
\* has the data of the construction and an empty oldData.
HandUpdate(d) ==
  /\ handUpdates < MaxHandUpdates
  /\ handUpdates = 0 => d = handData
  /\ handUpdates > 0 => d # handData
  /\ handUpdates' = handUpdates + 1
  /\ handData' = d
  /\ handLoads' = IF handUpdates = 0 \/ d.hand # handData.hand
                  THEN Append(handLoads, d.hand) ELSE handLoads
  /\ handMesh' = IF Animates(d.gesture)
                 THEN PlayAnimation(handMesh, d.gesture, handGesture) ELSE handMesh
  /\ handGesture' = IF Animates(d.gesture) THEN d.gesture ELSE handGesture
  /\ handLog' = IF handUpdates > 0 /\ d.gesture # handData.gesture
                THEN [set |-> d.gesture, hadMesh |-> handMesh.loaded,
                      shown |-> handMesh'.playing, from |-> handMesh'.from]
                ELSE handLog
  /\ UNCHANGED <<avatarVars, listenerVars, absoluteVars, soundVars>>

\* The loader's callback for the i-th load in flight: loads complete in any order.
HandLoaded(i) ==
  /\ i \in DOMAIN handLoads
  /\ handMesh' = [loaded |-> TRUE, hand |-> handLoads[i], playing |-> "", from |-> ""]
  /\ handLoads' = [j \in 1..(Len(handLoads) - 1) |->
                     IF j < i THEN handLoads[j] ELSE handLoads[j + 1]]
  /\ UNCHANGED <<handData, handGesture, handUpdates, handLog>>
  /\ UNCHANGED <<avatarVars, listenerVars, absoluteVars, soundVars>>

\* The hand that rests in its first pose on the left.
HandAtRest == InitHand({"Open"}, {"left"})

(***************************************************************************)
(* mediastream-sound.                                                       *)
(***************************************************************************)
NumStreams == 2
MaxSoundCalls == 4
MaxCaptures == 3

\* The streams handed to setMediaStream by the page, 0 for null; the streams
\* captured from the src element are new objects, numbered from NumStreams on.
Streams == 0..NumStreams

NoSource == [id |-> 0, of |-> 0]

\* init()
InitSound ==
  /\ snd = [sound |-> FALSE, stream |-> 0, source |-> NoSource, made |-> 0,
            connected |-> {}, emitted |-> <<>>]
  /\ playListeners = 0
  /\ captures = 0
  /\ sndCalls = 0
  /\ sndLog = [called |-> FALSE, newStream |-> 0, before |-> snd, after |-> snd]

\* _setupSound(): the sound is created.
SetupSound(st) == [st EXCEPT !.sound = TRUE]

\* Mutant: the source stays connected.
Disconnect_Nothing(st) == st

\* this.sound.disconnect(): the sound's source leaves the output.
Disconnect(st) == [st EXCEPT !.connected = @ \ {st.source.id}]

\* createMediaStreamSource(newStream), setNodeSource(soundSource), which
\* connects the source, and emit('sound-source-set', {soundSource}).
SetNodeSource(st, newStream) ==
  [st EXCEPT !.made = @ + 1,
             !.source = [id |-> st.made + 1, of |-> newStream],
             !.connected = @ \cup {st.made + 1},
             !.emitted = Append(@, st.made + 1)]

\* The body of if (newStream !== this.stream), the old source disconnected.
TakeStream(st, newStream) ==
  [(IF newStream # 0 THEN SetNodeSource(st, newStream) ELSE st)
     EXCEPT !.stream = newStream]

\* setMediaStream(newStream) on the component in state st.
SetMediaStream_Sound(st, newStream) ==
  IF newStream # st.stream
  THEN TakeStream(IF st.stream # 0 THEN Disconnect(SetupSound(st)) ELSE SetupSound(st),
                  newStream)
  ELSE SetupSound(st)

RECURSIVE PlayListeners(_, _, _)
\* The n 'play' listeners in turn: each sets a newly captured stream.
PlayListeners(st, n, next) ==
  IF n = 0 THEN st
  ELSE PlayListeners(SetMediaStream_Sound(st, next), n - 1, next + 1)

\* A call of setMediaStream(newStream) by the page.
SoundSetMediaStream(newStream) ==
  /\ sndCalls < MaxSoundCalls
  /\ sndCalls' = sndCalls + 1
  /\ snd' = SetMediaStream_Sound(snd, newStream)
  /\ sndLog' = [called |-> TRUE, newStream |-> newStream, before |-> snd, after |-> snd']
  /\ UNCHANGED <<playListeners, captures>>
  /\ UNCHANGED <<avatarVars, listenerVars, absoluteVars, handVars>>

\* update() and its _captureStream(), the src element being absent ("none"),
\* paused or playing.
SoundUpdate(src) ==
  /\ sndCalls < MaxSoundCalls
  /\ sndCalls' = sndCalls + 1
  /\ src = "playing" => captures < MaxCaptures
  /\ playListeners' = IF src = "paused" THEN playListeners + 1 ELSE playListeners
  /\ captures' = IF src = "playing" THEN captures + 1 ELSE captures
  /\ snd' = IF src = "playing"
            THEN SetMediaStream_Sound(snd, NumStreams + captures + 1) ELSE snd
  /\ sndLog' = IF src = "playing"
               THEN [called |-> TRUE, newStream |-> NumStreams + captures + 1,
                     before |-> snd, after |-> snd']
               ELSE sndLog
  /\ UNCHANGED <<avatarVars, listenerVars, absoluteVars, handVars>>

\* The src element starts to play: every 'play' listener added so far runs.
SoundPlay ==
  /\ playListeners > 0
  /\ captures + playListeners <= MaxCaptures
  /\ captures' = captures + playListeners
  /\ snd' = PlayListeners(snd, playListeners, NumStreams + captures + 1)
  /\ sndLog' = [called |-> TRUE, newStream |-> NumStreams + captures',
                before |-> PlayListeners(snd, playListeners - 1, NumStreams + captures + 1),
                after |-> snd']
  /\ UNCHANGED <<playListeners, sndCalls>>
  /\ UNCHANGED <<avatarVars, listenerVars, absoluteVars, handVars>>

\* remove()
SoundRemove ==
  /\ sndCalls < MaxSoundCalls
  /\ snd.sound
  /\ sndCalls' = sndCalls + 1
  /\ snd' = IF snd.stream # 0 THEN Disconnect(snd) ELSE snd
  /\ UNCHANGED <<playListeners, captures, sndLog>>
  /\ UNCHANGED <<avatarVars, listenerVars, absoluteVars, handVars>>

(***************************************************************************)
(* The component around _inflate.                                           *)
(***************************************************************************)
\* A number field of the component: undefined (NaN once computed with) or a value.
Undefined == [nan |-> TRUE, v |-> 0]
Num(v) == [nan |-> FALSE, v |-> v]

\* Schema defaults; the page sets the model.
DefaultData(src) ==
  [model |-> src, hands |-> TRUE, shirt |-> TRUE, head |-> TRUE,
   idleTimeout |-> 10, lookAt |-> 0, listen |-> TRUE]

\* init(): the second revision starts the idle timer here, the third leaves it
\* to update(), the first has none.
InitComp(d) ==
  [idleTimeout |-> IF variant = 2 THEN Num(d.idleTimeout * 1000) ELSE Undefined,
   idle |-> IF variant = 2 THEN Num(d.idleTimeout * 1000) ELSE Undefined,
   isIdle |-> FALSE, hasMixer |-> FALSE, playing |-> FALSE, mixerTime |-> 0,
   lookAt |-> 0, defaultLookAt |-> 0, listen |-> FALSE,
   leftEye |-> 0, rightEye |-> 0]

\* The avatar component after init(), in a revision of V, on a page with
\* templates of T and a model source of S.
InitAvatar(V, T, S) ==
  /\ variant \in V
  /\ templates \in T
  /\ data \in {DefaultData(src) : src \in S}
  /\ updates = 0
  /\ listeners = 0
  /\ gltfComp = 0
  /\ compModel = 0
  /\ pending = <<>>
  /\ runs = 0
  /\ nodes = <<>>
  /\ ents = <<>>
  /\ nextUuid = 1
  /\ avatarKids = <<>>
  /\ avatarMesh = 0
  /\ elChildren = <<>>
  /\ comp = InitComp(data)
  /\ handlers = 0
  /\ ticks = 0
  /\ events = 0
  /\ log = <<>>
  /\ quiet = 0

\* The elements that listen stay at the origin while the avatar is looked at.
AtOrigin == {[el \in Els |-> <<0, 0, 0>>]}

Init ==
  /\ InitAvatar(Variants, Range(TemplateSets), 0..NumTrees)
  /\ InitListener(AtOrigin)
  /\ InitAbsolute({MaxDepth})
  /\ HandAtRest
  /\ InitSound

\* The head of update() in the third revision: lookAt, listen and idleTimeout.
UpdateFields(c, d) ==
  IF variant # 3 THEN c
  ELSE [c EXCEPT
          !.lookAt = IF d.lookAt # 0 THEN d.lookAt ELSE @,
          !.defaultLookAt = IF d.lookAt # 0 THEN d.lookAt ELSE @,
          !.listen = d.listen,
          !.idleTimeout = IF d.idleTimeout # 0 THEN Num(d.idleTimeout * 1000) ELSE @,
          !.idle = IF d.idleTimeout # 0 THEN Num(d.idleTimeout * 1000) ELSE @]

\* update() with the data d.  With a model source: this.remove() (the
\* gltf-model component goes, and with it the 'mesh' object if its model
\* arrived), one more 'model-loaded' listener, and the gltf-model attribute
\* set again, which starts a load in a new gltf-model component.
DoUpdate(d) ==
  /\ data' = d
  /\ updates' = updates + 1
  /\ quiet' = 0
  /\ comp' = UpdateFields(comp, d)
  /\ IF d.model = 0
     THEN UNCHANGED <<listeners, gltfComp, compModel, pending, nodes,
                      avatarKids, avatarMesh>>
     ELSE /\ listeners' = listeners + 1
          /\ gltfComp' = updates + 1
          /\ compModel' = 0
          /\ pending' = Append(pending, [comp |-> updates + 1, src |-> d.model])
          /\ IF compModel # 0 /\ avatarMesh # 0
             THEN /\ avatarMesh' = 0
                  /\ avatarKids' = Without(avatarKids, avatarMesh)
                  /\ nodes' = IF nodes[avatarMesh].parent = AvatarParent
                              THEN [nodes EXCEPT ![avatarMesh].parent = NoParent]
                              ELSE nodes
             ELSE UNCHANGED <<nodes, avatarKids, avatarMesh>>
  /\ UNCHANGED <<variant, templates, runs, ents, nextUuid, elChildren,
                 handlers, ticks, events, log>>
  /\ UNCHANGED <<listenerVars, absoluteVars, restVars, soundVars>>

\* The first update(), which follows init() with the same data.
FirstUpdate ==
  /\ updates = 0
  /\ DoUpdate(data)

\* update() after the page changed the model source.
UpdateModel(src) ==
  /\ updates > 0 /\ updates < MaxUpdates
  /\ src # data.model
  /\ DoUpdate([data EXCEPT !.model = src])

\* update() after the page changed one of the visibility flags.
UpdateFlag(flag) ==
  /\ updates > 0 /\ updates < MaxUpdates
  /\ DoUpdate([data EXCEPT ![flag] = ~@])

\* update() after the page changed idleTimeout.
UpdateIdleTimeout(t) ==
  /\ variant # 1
  /\ updates > 0 /\ updates < MaxUpdates
  /\ t # data.idleTimeout
  /\ DoUpdate([data EXCEPT !.idleTimeout = t])

\* update() after the page set lookAt to an entity (entity 1 of the page).
UpdateLookAt ==
  /\ variant = 3
  /\ updates > 0 /\ updates < MaxUpdates
  /\ data.lookAt = 0
  /\ DoUpdate([data EXCEPT !.lookAt = 1])

(***************************************************************************)
(* Loading: the gltf-model component delivers a hierarchy and emits         *)
(* 'model-loaded'; every registered listener then runs.                     *)
(***************************************************************************)
\* The k-th child of node i in the tree t, children in the order of the list.
KthChild(t, i, k) ==
  CHOOSE j \in 1..Len(t) :
    /\ t[j].parent = i
    /\ Cardinality({h \in 1..j : t[h].parent = i}) = k

ChildCount(t, i) == Cardinality({j \in 1..Len(t) : t[j].parent = i})

\* The nodes of the tree t as THREE objects, with ids base+1.. and new tokens;
\* the root carries the animations.
InstantiateTree(t, idle, base, uuid0) ==
  [i \in 1..Len(t) |->
     [name |-> t[i].name, type |-> t[i].type,
      parent |-> IF t[i].parent = 0 THEN NoParent ELSE NodeParent(base + t[i].parent),
      children |-> [k \in 1..ChildCount(t, i) |-> base + KthChild(t, i, k)],
      position |-> t[i].position, rotation |-> t[i].rotation, scale |-> t[i].scale,
      uuid |-> uuid0 + i - 1, visible |-> TRUE, matrixAutoUpdate |-> TRUE,
      matrix |-> "composed", anim |-> (i = 1 /\ idle)]]

Instantiate(src, base, uuid0) ==
  InstantiateTree(Trees[src].nodes, Trees[src].idle, base, uuid0)

\* el.setObject3D('mesh', model) on the avatar element: the old 'mesh' object
\* leaves the element's object3D if it still is its child, the model enters it.
RemoveOldMesh(w) ==
  IF w.avatarMesh # 0 /\ w.nodes[w.avatarMesh].parent = AvatarParent
  THEN Detach(w, w.avatarMesh) ELSE w

AddMesh(w, root) ==
  [w EXCEPT !.nodes[root].parent = AvatarParent,
            !.avatarKids = Append(@, root),
            !.avatarMesh = root]

SetAvatarMesh(w, root) == AddMesh(RemoveOldMesh(w), root)

\* The model a listener inflates: the current gltf-model component's model
\* (first revision), the element's 'mesh' object (second), the event's model (third).
ListenerMesh(w, root) ==
  CASE variant = 1 -> w.compModel
    [] variant = 2 -> w.avatarMesh
    [] variant = 3 -> root

\* The idle animation set up when the model has a fifth animation.
SetupIdle(w, mesh) ==
  IF variant # 1 /\ w.nodes[mesh].anim
  THEN [w EXCEPT !.hasMixer = TRUE, !.playing = FALSE, !.mixerTime = 0,
                 !.handlers = @ + 2]
  ELSE w

\* if (inflated) el.appendChild(inflated)
AppendInflated(w) ==
  IF ~w.threw /\ w.ret # 0 THEN [w EXCEPT !.elChildren = Append(@, w.ret)] ELSE w

StartRun(w) == [w EXCEPT !.run = @ + 1, !.threw = FALSE, !.ret = 0]

\* One 'model-loaded' listener on the model mesh.  In the first revision a null
\* model of the current gltf-model component ends the listener with a TypeError.
ListenerOn(w, mesh) ==
  IF mesh = 0 THEN w
  ELSE AppendInflated(Inflate(mesh, StartRun(SetupIdle(w, mesh))))

Listener(w, root) == ListenerOn(w, ListenerMesh(w, root))

RECURSIVE Dispatch(_, _, _)
\* The dispatch of 'model-loaded' to k listeners, one after the other.
Dispatch(k, w, root) ==
  IF k = 0 THEN w ELSE Dispatch(k - 1, Listener(w, root), root)

\* The mutable state as one record, as the listeners see it.
World ==
  [nodes |-> nodes, ents |-> ents, nextUuid |-> nextUuid,
   avatarKids |-> avatarKids, avatarMesh |-> avatarMesh, compModel |-> compModel,
   elChildren |-> elChildren, handlers |-> handlers,
   hasMixer |-> comp.hasMixer, playing |-> comp.playing, mixerTime |-> comp.mixerTime,
   leftEye |-> comp.leftEye, rightEye |-> comp.rightEye,
   log |-> log, visited |-> <<>>, run |-> runs, threw |-> FALSE, ret |-> 0]

\* gltfLoaded: the model root (new nodes) becomes the component's model.
Arrived(w, p, root) ==
  [w EXCEPT !.nodes = @ \o Instantiate(p.src, root - 1, w.nextUuid),
            !.nextUuid = @ + Len(Trees[p.src].nodes),
            !.compModel = IF p.comp = gltfComp THEN root ELSE @]

Store(w) ==
  /\ nodes' = w.nodes
  /\ ents' = w.ents
  /\ nextUuid' = w.nextUuid
  /\ avatarKids' = w.avatarKids
  /\ avatarMesh' = w.avatarMesh
  /\ compModel' = w.compModel
  /\ elChildren' = w.elChildren
  /\ handlers' = w.handlers
  /\ comp' = [comp EXCEPT !.hasMixer = w.hasMixer, !.playing = w.playing,
                          !.mixerTime = w.mixerTime,
                          !.leftEye = w.leftEye, !.rightEye = w.rightEye]
  /\ log' = w.log
  /\ runs' = w.run

\* The load pending[i] completes: gltfLoaded sets the component's model and
\* the element's 'mesh' object and emits 'model-loaded'.
ModelLoaded(i) ==
  /\ i \in DOMAIN pending
  /\ Store(Dispatch(listeners,
                    SetAvatarMesh(Arrived(World, pending[i], Len(nodes) + 1),
                                  Len(nodes) + 1),
                    Len(nodes) + 1))
  /\ pending' = [j \in 1..(Len(pending) - 1) |->
                   IF j < i THEN pending[j] ELSE pending[j + 1]]
  /\ UNCHANGED <<variant, templates, data, updates, listeners, gltfComp,
                 ticks, events, quiet>>
  /\ UNCHANGED <<listenerVars, absoluteVars, restVars, soundVars>>

(***************************************************************************)
(* tick(), eye tracking and the idle timer.                                 *)
(***************************************************************************)
Abs(x) == IF x < 0 THEN -x ELSE x

OnGrid(a) == Norm(a) \in {0, 90, 180, -90}

\* "we constrain the rotation to 1/4 of PI"
Constrain(a) == IF Abs(a) > 45 THEN (IF a < 0 THEN -45 ELSE 45) ELSE a

\* Object3D.rotateX(Math.PI / 2): the orientation times a quarter turn about X,
\* read back as Euler angles in the rotation's order.  Off the grid of right
\* angles the product is worked out for a single constrained angle.
RotateXQuarter(r) ==
  CASE OnGrid(r.x) /\ OnGrid(r.y) /\ OnGrid(r.z) ->
         EulerFromMat(MatMul(MatOfEuler(r), RotX(90)), r.order)
    [] ~OnGrid(r.x) /\ r.z = 0 /\ r.order = "YXZ" ->
         IF r.x <= 0 THEN Euler(r.x + 90, r.y, 0, r.order)
         ELSE Euler(90 - r.x, Norm(r.y + 180), 180, r.order)
    [] ~OnGrid(r.x) /\ r.y = 0 /\ r.z = 0 /\ r.order = "XYZ" ->
         Euler(r.x + 90, 0, 0, r.order)
    [] OnGrid(r.x) /\ r.x = 0 /\ r.y = 0 /\ ~OnGrid(r.z) /\ r.order = "YXZ" ->
         Euler(45, IF r.z > 0 THEN 90 ELSE -90, IF r.z > 0 THEN 90 ELSE -90, r.order)
    [] OnGrid(r.x) /\ r.x = 0 /\ r.y = 0 /\ ~OnGrid(r.z) /\ r.order = "XYZ" ->
         Euler(90, r.z, 0, r.order)

\* What eye.lookAt(position) leaves in eye.rotation: it depends on where the
\* eye and the target are in the world; the model draws it from these.
LookAtResults == {<<0, 90, 0>>, <<90, 0, 0>>, <<0, 0, -90>>}

\* The rotation _look gives one eye; towards is the lookAt result, or <<>> when
\* there is nothing to look at.
EyeRotation(rotation, towards) ==
  IF towards = <<>>
  THEN RotateXQuarter(Euler(0, 0, 0, rotation.order))
  ELSE RotateXQuarter(Euler(Constrain(towards[1]), towards[2],
                            Constrain(towards[3]), rotation.order))

\* The avatar element carries no mediastream-listener component here, so
\* this.el.components['mediastream-listener'] is undefined.
Listener_listen == 0

\* _look(): what to look at.
LookTarget ==
  IF comp.listen /\ Listener_listen # 0 THEN Listener_listen ELSE comp.lookAt

LookSkipped == comp.isIdle \/ comp.leftEye = 0 \/ comp.rightEye = 0

\* _look(): the nodes after both eyes were turned.
Look(la, ra) ==
  IF variant # 3 \/ LookSkipped THEN nodes
  ELSE [nodes EXCEPT
          ![comp.leftEye].rotation =
             EyeRotation(@, IF LookTarget # 0 THEN la ELSE <<>>),
          ![comp.rightEye].rotation =
             EyeRotation(@, IF LookTarget # 0 THEN ra ELSE <<>>)]

\* _look(): this.lookAt = lookAt when something was heard.
Looked(c) ==
  IF variant = 3 /\ ~LookSkipped /\ LookTarget # 0
  THEN [c EXCEPT !.lookAt = LookTarget] ELSE c

Minus(a, delta) == IF a.nan THEN Undefined ELSE Num(a.v - delta)
Positive(a) == ~a.nan /\ a.v > 0
NotPositive(a) == ~a.nan /\ a.v <= 0

\* _startIdle().  In the second revision it ends in this.idleAnimation.start(),
\* which AnimationAction does not have: the tick ends there, after isIdle was set.
StartIdle(c) ==
  IF variant = 2 THEN [c EXCEPT !.isIdle = TRUE]
  ELSE [c EXCEPT !.lookAt = c.defaultLookAt, !.isIdle = TRUE, !.playing = TRUE]

StartIdleThrows == variant = 2

\* _stopIdle()
StopIdle(c) == [c EXCEPT !.isIdle = FALSE, !.playing = FALSE]

\* if (this.isIdle) this.idleMixer.update(delta / 1000)
MixerUpdate(c, delta) ==
  IF c.isIdle THEN [c EXCEPT !.mixerTime = @ + delta] ELSE c

\* tick() after _look: c already has the idle time passed.
Timer(c, delta) ==
  IF NotPositive(c.idle) /\ ~c.isIdle
  THEN IF StartIdleThrows THEN StartIdle(c) ELSE MixerUpdate(StartIdle(c), delta)
  ELSE IF Positive(c.idle) /\ c.isIdle
  THEN MixerUpdate(StopIdle(c), delta)
  ELSE MixerUpdate(c, delta)

Elapse(c, delta) == [c EXCEPT !.idle = Minus(@, delta)]

\* tick(time, delta) once the model is initialized (before that it returns at
\* once).  la and ra are what lookAt gives for the two eyes when there is
\* something to look at.
Tick(delta, la, ra) ==
  /\ variant # 1
  /\ comp.hasMixer
  /\ ticks < MaxTicks
  /\ (variant = 3 /\ ~LookSkipped /\ LookTarget # 0) \/ (la = <<0, 90, 0>> /\ ra = la)
  /\ nodes' = Look(la, ra)
  /\ comp' = Timer(Elapse(Looked(comp), delta), delta)
  /\ ticks' = ticks + 1
  /\ quiet' = quiet + delta
  /\ UNCHANGED <<variant, templates, data, updates, listeners, gltfComp, compModel,
                 pending, runs, ents, nextUuid, avatarKids, avatarMesh,
                 elChildren, handlers, events, log>>
  /\ UNCHANGED <<listenerVars, absoluteVars, restVars, soundVars>>

\* An absolutePositionChanged or absoluteRotationChanged event reaches the
\* handlers the listener registered: self.idle = self.idleTimeout.
AbsoluteChanged ==
  /\ handlers > 0
  /\ events < MaxEvents
  /\ comp' = [comp EXCEPT !.idle = comp.idleTimeout]
  /\ events' = events + 1
  /\ quiet' = 0
  /\ UNCHANGED <<variant, templates, data, updates, listeners, gltfComp, compModel,
                 pending, runs, nodes, ents, nextUuid, avatarKids, avatarMesh,
                 elChildren, handlers, ticks, log>>
  /\ UNCHANGED <<listenerVars, absoluteVars, restVars, soundVars>>

Deltas == {4000, 10000}
Flags == {"hands", "shirt", "head"}
IdleTimeouts == {0, 4}

Next ==
  \/ FirstUpdate
  \/ \E src \in 0..NumTrees : UpdateModel(src)
  \/ \E flag \in Flags : UpdateFlag(flag)
  \/ \E t \in IdleTimeouts : UpdateIdleTimeout(t)
  \/ UpdateLookAt
  \/ \E i \in 1..MaxUpdates : ModelLoaded(i)
  \/ \E delta \in Deltas, la \in LookAtResults, ra \in LookAtResults : Tick(delta, la, ra)
  \/ AbsoluteChanged

Spec == Init /\ [][Next]_vars

(***************************************************************************)
(* The mediastream-listener components on a page whose avatar has no model. *)
(***************************************************************************)
InitListening ==
  /\ InitAvatar({3}, {TemplateSets[1]}, {0})
  /\ InitListener([Els -> Positions])
  /\ InitAbsolute({MaxDepth})
  /\ HandAtRest
  /\ InitSound

NextListener ==
  \/ \E el \in Els : SetMediaStream(el)
  \/ \E el \in Els, loudness \in Loudnesses : ListenerTick(el, loudness)
  \/ \E me \in Els : CallListen(me)

SpecListener == InitListening /\ [][NextListener]_vars

(***************************************************************************)
(* listen() as a function of loudItems and the positions: any object of up  *)
(* to MaxItems keys, in any insertion order.                                *)
(***************************************************************************)
MaxItems == 3

Keys == <<"a", "b", "c", "d">>

Details == [el : Els, loudness : {0, 128, 255}]

LoudItemsOf(details) ==
  [i \in DOMAIN details |-> [key |-> Keys[i], detail |-> details[i]]]

InitListen ==
  /\ InitAvatar({3}, {TemplateSets[1]}, {0})
  /\ stream = [el \in Els |-> TRUE]
  /\ isMakingNoise = [el \in Els |-> FALSE]
  /\ loudItems \in {LoudItemsOf(d) : d \in UNION {[1..n -> Details] : n \in 0..MaxItems}}
  /\ where \in [Els -> Positions]
  /\ heard = [by |-> 0, item |-> 0]
  /\ lastEvent = [el \in Els |-> "none"]
  /\ InitAbsolute({MaxDepth})
  /\ HandAtRest
  /\ InitSound

NextListen == \E me \in Els : CallListen(me)

SpecListen == InitListen /\ [][NextListen]_vars

(***************************************************************************)
(* The absolute listeners on an element in chains of every depth, while the *)
(* elements of the chain are moved and turned.                              *)
(***************************************************************************)
InitAbsoluteListeners ==
  /\ InitAvatar({3}, {TemplateSets[1]}, {0})
  /\ InitListener(AtOrigin)
  /\ InitAbsolute(1..MaxDepth)
  /\ HandAtRest
  /\ InitSound

NextAbsolute ==
  \/ \E i \in 1..Len(chain), p \in Vectors : Move(i, p)
  \/ \E i \in 1..Len(chain), r \in Turns : Turn(i, r)
  \/ PositionTick
  \/ RotationTick

SpecAbsolute == InitAbsoluteListeners /\ [][NextAbsolute]_vars

(***************************************************************************)
(* remote-hand-controls under updates of gesture and hand while the hand    *)
(* models load.                                                             *)
(***************************************************************************)
InitHands ==
  /\ InitAvatar({3}, {TemplateSets[1]}, {0})
  /\ InitListener(AtOrigin)
  /\ InitAbsolute({MaxDepth})
  /\ InitHand(Gestures, Hands)
  /\ InitSound

NextHand ==
  \/ \E d \in [gesture : Gestures, hand : Hands] : HandUpdate(d)
  \/ \E i \in 1..MaxHandUpdates : HandLoaded(i)

SpecHand == InitHands /\ [][NextHand]_vars

(***************************************************************************)
(* mediastream-sound under calls of setMediaStream, updates with a src      *)
(* element, 'play' events of that element and remove().                     *)
(***************************************************************************)
InitSounds ==
  /\ InitAvatar({3}, {TemplateSets[1]}, {0})
  /\ InitListener(AtOrigin)
  /\ InitAbsolute({MaxDepth})
  /\ HandAtRest
  /\ InitSound

NextSound ==
  \/ \E newStream \in Streams : SoundSetMediaStream(newStream)
  \/ \E src \in {"none", "paused", "playing"} : SoundUpdate(src)
  \/ SoundPlay
  \/ SoundRemove

SpecSound == InitSounds /\ [][NextSound]_vars

(***************************************************************************)
(* Properties.  The log holds one record per _inflate call: the node before *)
(* and after, the snapshot of its children, the result and the entity as    *)
(* returned.                                                                *)
(***************************************************************************)
Calls == Range(log)

Returned(c) == c.ret > 0

\* The record of the call on node n in run r.
CallOf(r, n) == CHOOSE d \in Calls : d.run = r /\ d.node = n

Visited(r, n) == \E d \in Calls : d.run = r /\ d.node = n

\* At least one child of the call's node produced an entity.
SomeChildInflated(c) ==
  \E d \in Calls : d.run = c.run /\ d.node \in Range(c.kids) /\ Returned(d)

\* The entities inflate returned for the children, in the children's order.
ChildResults(c) ==
  SelectSeq([i \in DOMAIN c.kids |->
               IF Visited(c.run, c.kids[i]) THEN CallOf(c.run, c.kids[i]).ret ELSE 0],
            LAMBDA e : e > 0)

\* The template registered for the name has an element as its content.
HasContent(name) == TemplateOf(name) \in {"plain", "nested"}

Qualifies(c) ==
  c.pre.name = "Scene" \/ NodeTemplate(c.pre.name) \/ SomeChildInflated(c)

IdentityTransform(node) ==
  /\ node.position = ZeroVec
  /\ node.rotation.x = 0 /\ node.rotation.y = 0 /\ node.rotation.z = 0
  /\ node.scale = UnitVec

\* C1: every call of inflate returns an entity exactly when the node is named
\* 'Scene', has a template registered, or has a child that produced an
\* entity, and returns none otherwise.
C1_ReturnsEntityIffQualifies ==
  \A c \in Calls : Returned(c) <=> Qualifies(c)

\* The equivalence holds for the calls that no exception ended.
C1_WithoutExceptions ==
  \A c \in Calls : c.ret # -1 => (Returned(c) <=> Qualifies(c))

\* C2: inflating a node named 'Scene' always returns an entity, and the entity
\* carries position "0 -0.65 0" and rotation "0 180 0".
C2_RootAlwaysIncluded ==
  \A c \in Calls :
    c.pre.name = "Scene" =>
      /\ Returned(c)
      /\ c.el.attrs.position = "0 -0.65 0"
      /\ c.el.attrs.rotation = "0 180 0"

C2_WithoutExceptions ==
  \A c \in Calls :
    (c.pre.name = "Scene" /\ c.ret # -1) =>
      /\ Returned(c)
      /\ c.el.attrs.position = "0 -0.65 0"
      /\ c.el.attrs.rotation = "0 180 0"

\* The part of C3 about position and rotation: the node is left at the
\* identity and the entity has the node's former position and orientation.
PositionRotationTransferred(c) ==
  /\ IdentityTransform(c.post)
  /\ c.el.obj.position = c.pre.position
  /\ MatOfEuler(c.el.obj.rotation) = MatOfEuler(c.pre.rotation)
  /\ c.el.obj.rotation.order = "YXZ"

\* C3: for every inflated node, the node is left with the identity transform
\* and the entity has the position, rotation and scale the node had.
C3_TransformTransferred ==
  \A c \in Calls :
    Returned(c) => PositionRotationTransferred(c) /\ c.el.obj.scale = c.pre.scale

C3_WithoutScale ==
  \A c \in Calls : Returned(c) => PositionRotationTransferred(c)

\* All identity tokens now in use, nodes first, then entities.
Tokens ==
  [i \in DOMAIN nodes |-> nodes[i].uuid] \o [i \in DOMAIN ents |-> ents[i].obj.uuid]

\* C4: for every inflated node the entity has the node's former token, the
\* node has another one, which no node had when the run began or was given
\* before, and no two objects share a token.
C4_IdentitySwap ==
  /\ \A c \in Calls :
       Returned(c) =>
         /\ c.el.obj.uuid = c.pre.uuid
         /\ c.post.uuid # c.pre.uuid
         /\ \A d \in Calls :
              /\ d.run <= c.run => c.post.uuid # d.pre.uuid
              /\ (Returned(d) /\ d # c) => c.post.uuid # d.post.uuid
  /\ \A i, j \in DOMAIN Tokens : i # j => Tokens[i] # Tokens[j]

\* Two nodes of one tree were inflated, and a tree was inflated twice.
C4_Witness ==
  /\ \E c, d \in Calls : c.run = d.run /\ c.node # d.node /\ Returned(c) /\ Returned(d)
  /\ \E c, d \in Calls : c.run # d.run /\ c.node = d.node /\ Returned(c) /\ Returned(d)

\* C5 as stated: the children of an inflated node's entity are exactly the
\* entities of its children, in order, on both paths.
C5_ChildrenExactly ==
  \A c \in Calls : Returned(c) => c.el.children = ChildResults(c)

\* The elements a clone brings from the template's content.
OwnChildren(c) ==
  IF c.el.kind = "clone" /\ TemplateOf(c.el.tmpl) = "nested" THEN 1 ELSE 0

\* C5 amended: the entity's children are the child elements the clone brought
\* from the template's content (none for a default entity), followed by
\* exactly the entities of the node's children, in the node's order.
C5_ChildrenAfterOwn ==
  \A c \in Calls :
    Returned(c) =>
      /\ Len(c.el.children) = OwnChildren(c) + Len(ChildResults(c))
      /\ SubSeq(c.el.children, OwnChildren(c) + 1, Len(c.el.children)) = ChildResults(c)
      /\ \A i \in 1..OwnChildren(c) : ents[c.el.children[i]].kind = "templatechild"

\* A clone with a child of its own for a node with children A, B, C of which
\* A and C produced entities, and a default entity for a node with two
\* children that both produced entities.
C5_Witness ==
  /\ \E c \in Calls :
       /\ Returned(c) /\ OwnChildren(c) = 1
       /\ Len(c.kids) = 3 /\ Len(c.el.children) = 3
       /\ Returned(CallOf(c.run, c.kids[1]))
       /\ ~Returned(CallOf(c.run, c.kids[2]))
       /\ Returned(CallOf(c.run, c.kids[3]))
  /\ \E c \in Calls :
       Returned(c) /\ c.el.kind = "default" /\ Len(ChildResults(c)) = 2

\* What the construction gives whatever the shell: the object3D, the payload
\* slot and the node as it is left.
SameAsDefaultPath(c) ==
  /\ c.el.obj = [position |-> c.pre.position,
                 rotation |-> NormalizeRotation(c.pre.rotation),
                 scale |-> UnitVec, name |-> c.pre.name, uuid |-> c.pre.uuid,
                 matrixNeedsUpdate |-> TRUE, children |-> <<c.node>>]
  /\ c.el.map = {<<ToLowerCase(c.pre.type), c.node>>}
  /\ SubSeq(c.el.children, OwnChildren(c) + 1, Len(c.el.children)) = ChildResults(c)
  /\ IdentityTransform(c.post)
  /\ c.post.parent.k = "ent"
  /\ c.post.uuid # c.pre.uuid

EyesTree(c) ==
  /\ c.pre.name = "Scene" /\ c.pre.parent.k = "avatar" /\ Len(c.kids) = 1
  /\ Visited(c.run, c.kids[1])
  /\ CallOf(c.run, c.kids[1]).pre.name = "Hips"
  /\ Len(CallOf(c.run, c.kids[1]).kids) = 2
  /\ \A i \in 1..2 : Visited(c.run, CallOf(c.run, c.kids[1]).kids[i])
  /\ CallOf(c.run, CallOf(c.run, c.kids[1]).kids[1]).pre.name = "LeftEye"
  /\ CallOf(c.run, CallOf(c.run, c.kids[1]).kids[2]).pre.name = "RightEye"
  /\ \A n \in {"Scene", "Hips", "LeftEye"} : ~NodeTemplate(n)
  /\ HasContent("RightEye")

HipsOf(c) == CallOf(c.run, c.kids[1])

C8_InflatedOnce ==
  \A c, d \in Calls : c.node = d.node => c.run = d.run

\* C9: a template without content is no failure: the call builds a default entity.
C9_EmptyTemplateGivesDefault ==
  \A c \in Calls :
    (/\ TemplateOf(c.pre.name) = "empty"
     /\ \A i \in DOMAIN c.kids :
          Visited(c.run, c.kids[i]) /\ CallOf(c.run, c.kids[i]).ret # -1)
      => Returned(c) /\ c.el.kind = "default" /\ SameAsDefaultPath(c)

C9_GuardedRevisions == variant # 1 => C9_EmptyTemplateGivesDefault

\* C10: a node that was inflated keeps the identity transform ever after.
C10_PayloadStaysPut ==
  \A c \in Calls : Returned(c) => IdentityTransform(nodes[c.node])

C10_WithoutLook == variant # 3 => C10_PayloadStaysPut

\* The visible flag the policy gives a node under the flags of the call c.
VisibleByPolicy(c) ==
  IF c.pre.type = "SkinnedMesh"
  THEN CASE c.pre.name = "Wolf3D_Hands" -> c.flags.hands
         [] c.pre.name = "Wolf3D_Shirt" -> c.flags.shirt
         [] OTHER -> c.flags.head
  ELSE c.pre.visible

RECURSIVE Within(_, _)
\* The node x is the node n or below it in the node tree.
Within(x, n) ==
  x = n \/ (nodes[x].parent.k = "node" /\ Within(nodes[x].parent.id, n))

\* C11 as stated: a call that returns none leaves its node and the component
\* exactly as they were.
C11_PruningChangesNothing ==
  \A c \in Calls : c.ret = 0 => (c.post = c.pre /\ c.now = c.was)

\* C11 amended: a call that returns none leaves its node's transform, token,
\* parent and children as they were, creates no element and hands out no
\* token; it sets the node's visible flag by the visibility policy and, in the
\* latest revision, the eye references to nodes named for an eye in its subtree.
C11_PruningKeepsNode ==
  \A c \in Calls :
    c.ret = 0 =>
      /\ [c.post EXCEPT !.visible = c.pre.visible] = c.pre
      /\ c.post.visible = VisibleByPolicy(c)
      /\ c.now.created = c.was.created /\ c.now.nextUuid = c.was.nextUuid
      /\ c.now.leftEye = c.was.leftEye
            \/ (nodes[c.now.leftEye].name = "LeftEye" /\ Within(c.now.leftEye, c.node))
      /\ c.now.rightEye = c.was.rightEye
            \/ (nodes[c.now.rightEye].name = "RightEye" /\ Within(c.now.rightEye, c.node))

\* A call returned none for a node it hid.
C11_Witness ==
  \E c \in Calls :
    c.ret = 0 /\ c.pre.visible /\ ~c.post.visible

\* The node x is in the scene graph through an entity: it is the object an
\* entity holds, or below such an object in the node tree.
UnderEntity(x) ==
  \E n \in DOMAIN nodes : nodes[n].parent.k = "ent" /\ Within(x, n)

\* The call c returned none for a node whose parent node got an entity in the same run.
PrunedUnderInflated(c) ==
  /\ c.ret = 0 /\ c.pre.parent.k = "node"
  /\ Visited(c.run, c.pre.parent.id)
  /\ Returned(CallOf(c.run, c.pre.parent.id))

\* C12 as stated: the node of a call that returned none is neither the object
\* of an entity nor below one in the node tree.
C12_PrunedOutOfSceneGraph ==
  \A c \in Calls : c.ret = 0 => ~UnderEntity(c.node)

\* C12 amended: the node of a call that returned none is the object of no
\* entity and stays the child of its parent node; when that parent got an
\* entity, the node is in the scene graph below the object of that entity.
C12_PrunedStaysUnderParent ==
  \A c \in Calls :
    (c.ret = 0 /\ c.pre.parent.k = "node") =>
      /\ nodes[c.node].parent = c.pre.parent
      /\ \A e \in DOMAIN ents : c.node \notin Range(ents[e].obj.children)
      /\ c.node \in Range(nodes[c.pre.parent.id].children)
      /\ PrunedUnderInflated(c) =>
            /\ nodes[c.pre.parent.id].parent.k = "ent"
            /\ UnderEntity(c.node)

C12_Witness == \E c \in Calls : PrunedUnderInflated(c)

\* C13: after every call the node's visible flag is the 'hands' flag for a
\* SkinnedMesh named 'Wolf3D_Hands', the 'shirt' flag for one named
\* 'Wolf3D_Shirt', the 'head' flag for any other SkinnedMesh, and the flag the
\* node had for a node of another type, whether or not the node got an entity.
C13_VisibilityPolicy ==
  \A c \in Calls : c.post.visible = VisibleByPolicy(c)

\* A hidden SkinnedMesh became an entity, and another kind of node was visited.
C13_Witness ==
  /\ \E c \in Calls :
       Returned(c) /\ c.pre.type = "SkinnedMesh" /\ c.pre.visible /\ ~c.post.visible
  /\ \E c \in Calls : c.pre.type = "Bone"

\* The name without the characters outside [A-Za-z0-9_-].
Stripped(name) ==
  CASE name = "Armature.001" -> "Armature001"
    [] name = "!?" -> ""
    [] OTHER -> name

\* The one class the claim gives the entity of a node.
ClassOf(node) ==
  IF node.name = "" THEN [of |-> "uuid", text |-> "", token |-> node.uuid]
  ELSE [of |-> "name", text |-> Stripped(node.name), token |-> 0]

\* The children of the call's node all returned, and the clone can be made.
ComesToClass(c) ==
  /\ \A i \in DOMAIN c.kids :
       Visited(c.run, c.kids[i]) /\ CallOf(c.run, c.kids[i]).ret # -1
  /\ Qualifies(c)
  /\ ~(variant = 1 /\ TemplateOf(c.pre.name) = "empty")

\* C14: every node that is to become an entity gets one, with exactly one
\* class: its name without the characters outside [A-Za-z0-9_-], or its
\* token as it was before the swap when it has no name.
C14_OneClass ==
  \A c \in Calls :
    ComesToClass(c) => (Returned(c) /\ c.el.classes = <<ClassOf(c.pre)>>)

\* The same for the names that keep a character.
C14_NamesThatKeepACharacter ==
  \A c \in Calls :
    (ComesToClass(c) /\ (c.pre.name = "" \/ Stripped(c.pre.name) # ""))
      => (Returned(c) /\ c.el.classes = <<ClassOf(c.pre)>>)

\* The place in the log of the call on node n in the run of log[i], 0 if none.
PlaceOf(i, n) ==
  IF \E j \in DOMAIN log : log[j].run = log[i].run /\ log[j].node = n
  THEN CHOOSE j \in DOMAIN log : log[j].run = log[i].run /\ log[j].node = n
  ELSE 0

\* The call log[i] took all the children its node had, each was visited in
\* the children's order and decided before log[i] was, and no node was
\* visited twice in the run.
TraversedInOrder(i) ==
  /\ log[i].kids = log[i].pre.children
  /\ \A k \in DOMAIN log[i].kids :
       PlaceOf(i, log[i].kids[k]) > 0 /\ PlaceOf(i, log[i].kids[k]) < i
  /\ \A k, m \in DOMAIN log[i].kids :
       k < m => PlaceOf(i, log[i].kids[k]) < PlaceOf(i, log[i].kids[m])
  /\ \A j \in DOMAIN log :
       (j # i /\ log[j].run = log[i].run) => log[j].node # log[i].node

\* C15: in every run each node of the tree is visited exactly once, and the
\* children of a node are all visited, in their order, before the node is decided.
C15_EveryNodeOnce == \A i \in DOMAIN log : TraversedInOrder(i)

\* The same for the calls that no exception ended.
C15_WithoutExceptions ==
  \A i \in DOMAIN log : log[i].ret # -1 => TraversedInOrder(i)

\* The slot of a node: its type in lower case.
SlotOf(type) ==
  CASE type = "Group" -> "group"
    [] type = "Bone" -> "bone"
    [] type = "SkinnedMesh" -> "skinnedmesh"
    [] type = "Object3D" -> "object3d"

\* The entities that hold the node n in a slot.
Wrappers(n) == {e \in DOMAIN ents : \E p \in ents[e].map : p[2] = n}

\* The node of the call c has one wrapper, the entity the call returned,
\* which holds it in the slot of its type, holds nothing else and is its
\* parent; the node has left the children of its former parent node.
OneWrapper(c) ==
  /\ Wrappers(c.node) = {c.ret}
  /\ ents[c.ret].map = {<<SlotOf(c.pre.type), c.node>>}
  /\ ents[c.ret].obj.children = <<c.node>>
  /\ nodes[c.node].parent = [k |-> "ent", id |-> c.ret]
  /\ c.pre.parent.k = "node" => c.node \notin Range(nodes[c.pre.parent.id].children)

\* C16: every inflated node is held by exactly one entity, in the slot named
\* by its type in lower case, no entity holds more than one node, and the
\* node is no child of its former parent node any more.
C16_OneWrapperPerPayload ==
  \A c \in Calls : Returned(c) => OneWrapper(c)

\* The same for the nodes that were inflated in one run only.
C16_InflatedInOneRun ==
  \A c \in Calls :
    (Returned(c) /\ \A d \in Calls : d.node = c.node => d.run = c.run)
      => OneWrapper(c)

\* The step is a tick().
TickStep == ticks' = ticks + 1

\* After the tick the avatar is idle, with the idle animation playing,
\* exactly when the ticks since the last update() or absolute event have
\* reached idleTimeout seconds.
IdleWhenQuiet ==
  (comp'.isIdle /\ comp'.playing) <=> (quiet' >= data.idleTimeout * 1000)

\* C17: every tick leaves the avatar idle, its idle animation started, exactly
\* when the tick deltas since the last absolute position or rotation event or
\* update() have reached idleTimeout seconds; so it enters idle at the first
\* such tick, not earlier, and leaves it at the tick after an event.
C17_IdleTimer == [][TickStep => IdleWhenQuiet]_vars

\* The same for the latest revision with an idleTimeout other than 0, while
\* the idle animation was set up once only.
C17_LatestRevision ==
  [][(TickStep /\ variant = 3 /\ data.idleTimeout # 0 /\ handlers = 2)
       => IdleWhenQuiet]_vars

\* The elements whose last event was 'mediastream-listener-loud'.
LoudEls == {el \in Els : lastEvent[el] = "loud"}

\* C18: loudItems holds exactly the elements whose most recent event was the
\* loud one, each once.
C18_LoudItemsExact ==
  /\ {loudItems[i].detail.el : i \in DOMAIN loudItems} = LoudEls
  /\ Len(loudItems) = Cardinality(LoudEls)

\* The squared distance between two elements.
Apart(a, b) ==
  (where[a][1] - where[b][1]) * (where[a][1] - where[b][1])
    + (where[a][2] - where[b][2]) * (where[a][2] - where[b][2])
    + (where[a][3] - where[b][3]) * (where[a][3] - where[b][3])

\* The entries of loudItems that listen() may return to me: another element,
\* with a positive loudness / distance^2.
Candidates(me) ==
  {i \in DOMAIN loudItems :
     loudItems[i].detail.el # me /\ loudItems[i].detail.loudness > 0}

\* The entry i is at least as noisy to me as the entry j.
AsNoisy(me, i, j) ==
  loudItems[i].detail.loudness * Apart(me, loudItems[j].detail.el)
    >= loudItems[j].detail.loudness * Apart(me, loudItems[i].detail.el)

\* C19: listen() returns null when loudItems has no other element with a
\* positive loudness / distance^2, and else such an element than which none
\* is noisier; it never returns the element that listens.
C19_ListenReturnsLoudest ==
  heard.by # 0 =>
    /\ heard.item # heard.by
    /\ heard.item = 0 <=> Candidates(heard.by) = {}
    /\ heard.item # 0 =>
         \E i \in Candidates(heard.by) :
           /\ loudItems[i].detail.el = heard.item
           /\ \A j \in Candidates(heard.by) : AsNoisy(heard.by, i, j)

\* listen() chose among two candidates, not the first, with its own element
\* in loudItems too.
C19_Witness ==
  /\ heard.by # 0 /\ heard.item # 0
  /\ Cardinality(Candidates(heard.by)) = 2
  /\ \E i \in DOMAIN loudItems : loudItems[i].detail.el = heard.by
  /\ \E i, j \in Candidates(heard.by) :
       i < j /\ loudItems[j].detail.el = heard.item /\ ~AsNoisy(heard.by, i, j)

RECURSIVE Total(_, _)
\* The component-wise sum of a field over the elements of a chain.
Total(ch, field) ==
  IF ch = <<>> THEN <<0, 0, 0>>
  ELSE <<ch[1][field][1] + Total(Tail(ch), field)[1],
         ch[1][field][2] + Total(Tail(ch), field)[2],
         ch[1][field][3] + Total(Tail(ch), field)[3]>>

\* The field the listener of the last tick sums.
FieldOf(kind) == IF kind = "position" THEN "position" ELSE "rotation"

\* The sum at the last tick differs from the sum at the previous emission;
\* before the first emission there is no value to be equal to.
SumChanged ==
  \/ absLog.before = <<>>
  \/ Total(absLog.chain, FieldOf(absLog.kind)) # Total(absLog.before, FieldOf(absLog.kind))

\* C20: a tick of absolute-position-listener (absolute-rotation-listener)
\* emits its event exactly when the component-wise sum of the local positions
\* (rotations) of the element and its ancestors below the scene differs from
\* the sum at the previous emission.
C20_EmitsWhenSumChanged ==
  absLog.kind # "none" => (absLog.emitted <=> SumChanged)

\* An event after the rig alone was moved and turned: the position and the
\* rotation of the element itself are those of the previous emission.
C20_Witness ==
  /\ Len(chain) = 2 /\ absLog.kind = "position" /\ absLog.before # <<>>
  /\ absLog.emitted
  /\ absLog.chain[1] = absLog.before[1]
  /\ absLog.chain[2].position # absLog.before[2].position

\* C21: once the hand model is loaded and no load is in flight, the mesh
\* plays the gesture most recently set by an update() that changed it.
C21_ShowsLatestGesture ==
  (handMesh.loaded /\ handLoads = <<>> /\ handLog.set # "")
    => handMesh.playing = handLog.set

\* The last update() that changed the gesture played its clip if the mesh
\* was set by then, crossfading from the gesture before.
C21_PlayedOnLoadedMesh ==
  (handLog.set # "" /\ handLog.hadMesh)
    => (handLog.shown = handLog.set /\ handLog.from \in Gestures \ {handLog.set})

\* C22: after setMediaStream(s) with a stream s that is not null and not the
\* current one, the sound's source is a new one made from s, it is the only
\* source connected, and 'sound-source-set' was emitted once, for it; after
\* setMediaStream(s) with the current stream nothing has changed.
C22_SetMediaStream ==
  sndLog.called =>
    /\ (sndLog.newStream # 0 /\ sndLog.newStream # sndLog.before.stream) =>
         /\ sndLog.after.stream = sndLog.newStream
         /\ sndLog.after.source.of = sndLog.newStream
         /\ sndLog.after.source.id # sndLog.before.source.id
         /\ sndLog.after.connected = {sndLog.after.source.id}
         /\ sndLog.after.emitted = Append(sndLog.before.emitted, sndLog.after.source.id)
    /\ (sndLog.newStream # 0 /\ sndLog.newStream = sndLog.before.stream) =>
         sndLog.after = sndLog.before

\* A second stream replaced a first one whose source was connected, and the
\* same stream was set again afterwards.
C22_Witness ==
  /\ sndLog.called
  /\ sndLog.newStream # 0 /\ sndLog.newStream = sndLog.before.stream
  /\ Len(snd.emitted) = 2
  /\ snd.connected = {2}

\* The children the node n had when run r came to it.
KidsAt(r, n) ==
  IF Visited(r, n) THEN CallOf(r, n).pre.children ELSE nodes[n].children

RECURSIVE HasMarked(_, _)
\* The subtree of n, as run r found it, has a node that is named 'Scene' or
\* has a template registered.
HasMarked(r, n) ==
  \/ nodes[n].name = "Scene"
  \/ NodeTemplate(nodes[n].name)
  \/ \E k \in Range(KidsAt(r, n)) : HasMarked(r, k)

RECURSIVE Clean(_, _)
\* No exception ended the call of run r on n or a call below it.
Clean(r, n) ==
  /\ Visited(r, n)
  /\ CallOf(r, n).ret # -1
  /\ \A k \in Range(KidsAt(r, n)) : Clean(r, k)

\* C23: a call of inflate returns an entity exactly when the subtree of its
\* node, the node included, has a node that is named 'Scene' or has a
\* template registered.
C23_InflatesIffMarked ==
  \A c \in Calls : Returned(c) <=> HasMarked(c.run, c.node)

\* The same for the calls that no exception ended, at the node or below it.
C23_WithoutExceptions ==
  \A c \in Calls :
    Clean(c.run, c.node) => (Returned(c) <=> HasMarked(c.run, c.node))

\* The call c was made by the call of the same run on the parent of its node.
HasCaller(c) == c.pre.parent.k = "node" /\ Visited(c.run, c.pre.parent.id)

Caller(c) == CallOf(c.run, c.pre.parent.id)

\* The entity of c is a child of the entity the call on the parent node returned.
UnderParentEntity(c) ==
  Returned(Caller(c)) /\ c.ret \in Range(Caller(c).el.children)

\* The children of the entity of c that hold a node are the entities of
\* children of the node of c.
ChildrenOfChildNodes(c) ==
  \A e \in Range(c.el.children) :
    ents[e].kind # "templatechild" =>
      \E d \in Calls : d.run = c.run /\ d.ret = e /\ d.node \in Range(c.kids)

\* C24: when a call returns an entity, the call on the parent node returns
\* one too, of which that entity is a child, and so up to the node the run
\* began at; an entity has no entity of another node than a child node
\* among its children.
C24_NoLevelSkipped ==
  \A c \in Calls :
    Returned(c) =>
      /\ HasCaller(c) => UnderParentEntity(c)
      /\ ChildrenOfChildNodes(c)

\* The same where no exception ended the call on the parent node.
C24_WithoutExceptions ==
  \A c \in Calls :
    Returned(c) =>
      /\ (HasCaller(c) /\ Caller(c).ret # -1) => UnderParentEntity(c)
      /\ ChildrenOfChildNodes(c)

\* The roots of the models the runs began at, and the latest of them.
Roots == {c.node : c \in {d \in Calls : d.pre.parent.k # "node"}}

IsLatestRoot(n) == n \in Roots /\ \A m \in Roots : m <= n

\* C25: the avatar element has at most one inflated root entity among its
\* children, the one returned for the root of the model loaded last.
C25_AtMostOneInflatedModel ==
  /\ Len(elChildren) <= 1
  /\ \A i \in DOMAIN elChildren :
       \E c \in Calls : c.ret = elChildren[i] /\ IsLatestRoot(c.node)

\* With a single update() the element has at most one inflated root entity.
C25_AfterOneUpdate ==
  updates <= 1 => Len(elChildren) <= 1

====
